---- MODULE Spec2Model ----
(***************************************************************************)
(* MazeRL: a tabular Monte-Carlo learner on a grid maze (src/src/model.rs) *)
(* and the egui application that drives it (src/src/main.rs).              *)
(*                                                                         *)
(* Numbers.  The program computes in f64.  The model computes with exact   *)
(* rationals on fixed denominators:                                        *)
(*   - a return is an integer count of 1/multiplier (round_to(_, 5) leaves *)
(*     a multiple of 10^-5);                                               *)
(*   - a value estimate is an integer count of 1/(multiplier * ValDen);    *)
(*   - a rate (discount, learning, epsilon, a random draw, the progress)   *)
(*     is a pair <<numerator, denominator>>.                               *)
(* A product that is no whole count is rounded to the nearest one, as f64  *)
(* rounds to its nearest value.  multiplier * ValDen holds five factors of *)
(* 5 and more of 2, so a value stays exact over five updates at the rate   *)
(* 1/10.  The binary rounding error of f64 is not modelled.                *)
(*                                                                         *)
(* Scale.  The program's sizes are scaled down: the grid (2..=30, 10 by    *)
(* default), the episode count (1..=100000, 10000 by default) and the step *)
(* caps (1..=1000; the export rollout's 1000) are the bounds below.        *)
(*                                                                         *)
(* Indices.  Positions are zero-based as in Board; positions handed to     *)
(* Board::new are one-based as in the editor.  Sequences are 1-based, so   *)
(* the code's vector index k is the model's k + 1.                         *)
(***************************************************************************)
EXTENDS Integers, Sequences, FiniteSets, TLC

\* ---------------------------------------------------------------- bounds
MaxRows == 2
MaxCols == 2
MaxLimit == 3
MaxEpisodes == 2
\* Board::new on its own (NewSpec)
MaxRowsNew == 3
MaxColsNew == 3
MaxBlockedNew == 3

\* the maze editor on its own (EditorSpec)
MaxRowsEditor == 2
MaxColsEditor == 3

\* ------------------------------------------------------------- constants
decimal_places == 5
MinDim == 2

RECURSIVE Pow(_, _)
Pow(base, e) == IF e = 0 THEN 1 ELSE base * Pow(base, e - 1)

multiplier == Pow(10, decimal_places)

\* the value estimates' precision beyond that of the returns: one binary digit
\* for each rollout step that can update a value
ValDen == Pow(2, MaxEpisodes * MaxLimit)

\* 1/10 is MazeApp::default's learning_rate
LearningRates == {<<0, 1>>, <<1, 10>>, <<1, 1>>}
\* 1/64 = 0.015625 has six decimals: round_to(_, 5) rounds -1.015625 to -1.01563
DiscountRates == {<<0, 1>>, <<1, 64>>, <<1, 1>>}
\* 9/10 is MazeApp::default's epsilon; epsilon = 1 explores on every draw, as
\* epsilon = 9/10 does on a draw of 0
Epsilons == {<<0, 1>>, <<9, 10>>}
\* rng.random::<f64>() lies in [0, 1)
Randoms == {<<0, 1>>, <<19, 20>>}

Less(x, y) == x[1] * y[2] < y[1] * x[2]

Actions == <<"Up", "Right", "Down", "Left">>

NoAction == "None"

\* ------------------------------------------------------------- functions

\* f64::round: to the nearest integer, halves away from zero; p/q with q > 0
RoundHalfAway(p, q) ==
    IF p >= 0 THEN (2 * p + q) \div (2 * q)
    ELSE -((2 * (-p) + q) \div (2 * q))

\* round_to(value, 5) for value * multiplier = p / q; the result counts 1/multiplier
round_to(p, q) == RoundHalfAway(p, q)

RECURSIVE max_index_loop(_, _, _, _)
max_index_loop(x, i, max_val, max_ind) ==
    IF i > Len(x) THEN max_ind
    ELSE IF x[i] > max_val THEN max_index_loop(x, i + 1, x[i], i)
         ELSE max_index_loop(x, i + 1, max_val, max_ind)

\* max_index with >= for >: the last of several maximal values
max_index_last(x) ==
    CHOOSE k \in 1..Len(x) :
        /\ \A m \in 1..Len(x) : x[m] <= x[k]
        /\ \A m \in (k + 1)..Len(x) : x[m] < x[k]

max_index(x) == max_index_loop(x, 1, x[1], 1)

\* Option<usize>: 0 is None
index_of(list, target) ==
    IF \E k \in 1..Len(list) : list[k] = target
    THEN CHOOSE k \in 1..Len(list) :
             list[k] = target /\ \A m \in 1..(k - 1) : list[m] # target
    ELSE 0

\* State::policy, given its two random draws: random_number_1 and the index
\* floor(random * len) that the second draw yields
policy(state, epsilon, random_number_1, random_index_2) ==
    IF Less(random_number_1, epsilon)
    THEN state.actions[random_index_2]
    ELSE state.actions[max_index(state.action_values)]

\* ------------------------------------------------------------ Board::new

Cells(rows, columns) == (0..(rows - 1)) \X (0..(columns - 1))

\* the editor's one-based positions (i + 1, j + 1)
Positions(rows, columns) == (1..rows) \X (1..columns)

\* Board::new whose Left branch pushes the action without its value
NewStateNoValue(rows, columns, blocked, i, j) ==
    IF <<i + 1, j + 1>> \in blocked
    THEN [actions |-> <<>>, action_values |-> <<>>]
    ELSE LET up == IF i >= 1 /\ <<i, j + 1>> \notin blocked THEN <<"Up">> ELSE <<>>
             right == IF j <= columns - 2 /\ <<i + 1, j + 2>> \notin blocked
                      THEN <<"Right">> ELSE <<>>
             down == IF i <= rows - 2 /\ <<i + 2, j + 1>> \notin blocked
                     THEN <<"Down">> ELSE <<>>
             left == IF j >= 1 /\ <<i + 1, j>> \notin blocked THEN <<"Left">> ELSE <<>>
             actions == up \o right \o down \o left
         IN [actions |-> actions,
             action_values |-> [k \in 1..Len(up \o right \o down) |-> 0]]

\* Board::new that lists the moves inside the grid, onto blocked cells too
NewStateThroughWalls(rows, columns, blocked, i, j) ==
    IF <<i + 1, j + 1>> \in blocked
    THEN [actions |-> <<>>, action_values |-> <<>>]
    ELSE LET up == IF i >= 1 THEN <<"Up">> ELSE <<>>
             right == IF j <= columns - 2 THEN <<"Right">> ELSE <<>>
             down == IF i <= rows - 2 THEN <<"Down">> ELSE <<>>
             left == IF j >= 1 THEN <<"Left">> ELSE <<>>
             actions == up \o right \o down \o left
         IN [actions |-> actions, action_values |-> [k \in 1..Len(actions) |-> 0]]

\* Board::new with j <= columns - 1 for j <= columns - 2
NewStateWrong(rows, columns, blocked, i, j) ==
    IF <<i + 1, j + 1>> \in blocked
    THEN [actions |-> <<>>, action_values |-> <<>>]
    ELSE LET up == IF i >= 1 /\ <<i, j + 1>> \notin blocked THEN <<"Up">> ELSE <<>>
             right == IF j <= columns - 1 /\ <<i + 1, j + 2>> \notin blocked
                      THEN <<"Right">> ELSE <<>>
             down == IF i <= rows - 2 /\ <<i + 2, j + 1>> \notin blocked
                     THEN <<"Down">> ELSE <<>>
             left == IF j >= 1 /\ <<i + 1, j>> \notin blocked THEN <<"Left">> ELSE <<>>
             actions == up \o right \o down \o left
         IN [actions |-> actions, action_values |-> [k \in 1..Len(actions) |-> 0]]

NewState(rows, columns, blocked, i, j) ==
    IF <<i + 1, j + 1>> \in blocked
    THEN [actions |-> <<>>, action_values |-> <<>>]
    ELSE LET up == IF i >= 1 /\ <<i, j + 1>> \notin blocked THEN <<"Up">> ELSE <<>>
             right == IF j <= columns - 2 /\ <<i + 1, j + 2>> \notin blocked
                      THEN <<"Right">> ELSE <<>>
             down == IF i <= rows - 2 /\ <<i + 2, j + 1>> \notin blocked
                     THEN <<"Down">> ELSE <<>>
             left == IF j >= 1 /\ <<i + 1, j>> \notin blocked THEN <<"Left">> ELSE <<>>
             actions == up \o right \o down \o left
         IN [actions |-> actions, action_values |-> [k \in 1..Len(actions) |-> 0]]

\* Board::new that leaves the cursor at the one-based start
BoardNewOneBased(rows, columns, start, finish, blocked) ==
    [data |-> [c \in Cells(rows, columns) |-> NewState(rows, columns, blocked, c[1], c[2])],
     dimensions |-> <<rows, columns>>,
     start |-> <<start[1] - 1, start[2] - 1>>,
     finish |-> <<finish[1] - 1, finish[2] - 1>>,
     current |-> <<start[1], start[2]>>]

BoardNew(rows, columns, start, finish, blocked) ==
    [data |-> [c \in Cells(rows, columns) |-> NewState(rows, columns, blocked, c[1], c[2])],
     dimensions |-> <<rows, columns>>,
     start |-> <<start[1] - 1, start[2] - 1>>,
     finish |-> <<finish[1] - 1, finish[2] - 1>>,
     current |-> <<start[1] - 1, start[2] - 1>>]

\* ---------------------------------------------------------- Board methods

Move(position, a) ==
    CASE a = "Up" -> <<position[1] - 1, position[2]>>
      [] a = "Right" -> <<position[1], position[2] + 1>>
      [] a = "Down" -> <<position[1] + 1, position[2]>>
      [] a = "Left" -> <<position[1], position[2] - 1>>

\* world_model: the board after the move, and the reward
world_model_board(board, a) == [board EXCEPT !.current = Move(board.current, a)]

\* the reward taken from the cell the step starts on
world_model_reward_before(board, a) ==
    IF board.current = board.finish THEN 0 ELSE -1

\* the reward world_model returns: the cursor is compared after the move
world_model_reward(board, a) ==
    IF Move(board.current, a) = board.finish THEN 0 ELSE -1

\* a reset that moves start to the cursor
reset_start_to_cursor(board) == [board EXCEPT !.start = board.current]

\* a rollout that does not reset
reset_skipped(board) == board

reset(board) == [board EXCEPT !.current = board.start]

\* the first loop seeded with the last step's reward
RECURSIVE returns_loop_from_last_reward(_, _, _)
returns_loop_from_last_reward(trajectory, discount_rate, n) ==
    IF n = 0
    THEN IF Len(trajectory) = 0 THEN <<0>>
         ELSE <<trajectory[Len(trajectory)].reward * multiplier>>
    ELSE LET prev == returns_loop_from_last_reward(trajectory, discount_rate, n - 1)
         IN Append(prev,
                   round_to(prev[n] * discount_rate[1]
                              + trajectory[Len(trajectory) - n].reward
                                  * multiplier * discount_rate[2],
                            discount_rate[2]))

\* the vector `returns` after n passes of the first loop of update_after_trajectory
RECURSIVE returns_loop(_, _, _)
returns_loop(trajectory, discount_rate, n) ==
    IF n = 0 THEN <<0>>
    ELSE LET prev == returns_loop(trajectory, discount_rate, n - 1)
         IN Append(prev,
                   round_to(prev[n] * discount_rate[1]
                              + trajectory[Len(trajectory) - n].reward
                                  * multiplier * discount_rate[2],
                            discount_rate[2]))

Returns(trajectory, discount_rate) ==
    returns_loop(trajectory, discount_rate,
                 IF Len(trajectory) = 0 THEN 0 ELSE Len(trajectory) - 1)

\* returns read front to back: returns[i]
return_of_forward(returns, k) == returns[k]

\* returns[returns.len() - 1 - i]: the return applied to step k of the episode
return_of(returns, k) == returns[Len(returns) + 1 - k]

\* action_values[index] += (G - action_values[index]) * learning_rate
\* the update without its learning rate
update_value_full_step(value, G, learning_rate) == value + (G * ValDen - value)

update_value(value, G, learning_rate) ==
    value + RoundHalfAway((G * ValDen - value) * learning_rate[1], learning_rate[2])

\* the second loop walking the episode from its last step to its first
RECURSIVE update_loop_backward(_, _, _, _, _)
update_loop_backward(data, trajectory, returns, learning_rate, k) ==
    IF k > Len(trajectory) THEN data
    ELSE LET step == Len(trajectory) + 1 - k
             current_traj == trajectory[step]
             current_state == data[current_traj.position]
             index == index_of(current_state.actions, current_traj.action)
             G == return_of(returns, step)
             next == IF index = 0 THEN data
                     ELSE [data EXCEPT ![current_traj.position].action_values[index] =
                               update_value(@, G, learning_rate)]
         IN update_loop_backward(next, trajectory, returns, learning_rate, k + 1)

\* the second loop of update_after_trajectory, passes k..Len(trajectory)
RECURSIVE update_loop(_, _, _, _, _)
update_loop(data, trajectory, returns, learning_rate, k) ==
    IF k > Len(trajectory) THEN data
    ELSE LET current_traj == trajectory[k]
             current_state == data[current_traj.position]
             index == index_of(current_state.actions, current_traj.action)
             G == return_of(returns, k)
             next == IF index = 0 THEN data
                     ELSE [data EXCEPT ![current_traj.position].action_values[index] =
                               update_value(@, G, learning_rate)]
         IN update_loop(next, trajectory, returns, learning_rate, k + 1)

update_after_trajectory(board, trajectory, discount_rate, learning_rate) ==
    [board EXCEPT !.data =
        update_loop(board.data, trajectory, Returns(trajectory, discount_rate),
                    learning_rate, 1)]

\* ------------------------------------------------------------------ state

VARIABLES
    blocked,      \* the set handed to Board::new (one-based positions)
    b,            \* the Board the calls act on
    pc,           \* where control is
    ret_pc,       \* where the running call returns to
    args,         \* the running call's parameters
    episode,      \* Board::train: the for loop's counter
    count,        \* the while loop's counter
    traj,         \* Board::train: the episode of the current or last pass
    returns,      \* update_after_trajectory: `returns` of its last run
    final_vec,    \* Board::trajectory: the pairs collected or returned
    action,       \* the action policy returned last
    episodes,     \* training episodes begun so far
    \* struct MazeApp
    rows, cols, temp_rows, temp_cols, cells, hovered, app_mode, mode, start, finish,
    board, error, training_num, trajectory_limit, discount_rate, learning_rate,
    epsilon, trajectory, currently_training,
    chan,         \* the messages sent on tx and not yet received on rx
    progress,
    \* the training worker's closure
    i, training_num_c, trajectory_limit_c, discount_rate_c, learning_rate_c, epsilon_c

boardvars == <<blocked, b, pc, ret_pc, args, episode, count, traj, returns, final_vec,
               action, episodes>>

editorvars == <<rows, cols, temp_rows, temp_cols, cells, hovered, mode, start, finish,
                error>>

trainingvars == <<training_num, trajectory_limit, discount_rate, learning_rate, epsilon>>

appvars == <<editorvars, trainingvars, app_mode, board, trajectory,
             currently_training, chan, progress>>

workervars == <<i, training_num_c, trajectory_limit_c, discount_rate_c,
                learning_rate_c, epsilon_c>>

boardvars_but_pc == <<blocked, b, ret_pc, args, episode, count, traj, returns,
                      final_vec, action, episodes>>

vars == <<boardvars, appvars, workervars>>

NoBoard == [data |-> <<>>, dimensions |-> <<0, 0>>, start |-> <<0, 0>>,
            finish |-> <<0, 0>>, current |-> <<0, 0>>]

Unselected == <<0, 0>>

\* MazeApp::default, with a default grid of nr rows and nc columns
AppDefaultOf(nr, nc) ==
    /\ rows = nr
    /\ cols = nc
    /\ temp_rows = nr
    /\ temp_cols = nc
    /\ cells = [c \in Cells(nr, nc) |-> FALSE]
    /\ hovered = [c \in Cells(nr, nc) |-> FALSE]
    /\ app_mode = "ConfiguringMaze"
    /\ mode = "Rest"
    /\ start = Unselected
    /\ finish = Unselected
    /\ board = NoBoard
    /\ error = ""
    /\ training_num = MaxEpisodes
    /\ trajectory_limit = MaxLimit
    /\ discount_rate = <<1, 1>>
    /\ learning_rate = <<1, 10>>
    /\ epsilon = <<9, 10>>
    /\ trajectory = <<>>
    /\ currently_training = FALSE
    /\ chan = <<>>
    /\ progress = <<0, 1>>

AppDefault == AppDefaultOf(MaxRows, MaxCols)

\* no worker has been spawned
NoWorker ==
    /\ i = 0
    /\ training_num_c = 0
    /\ trajectory_limit_c = 0
    /\ discount_rate_c = <<0, 1>>
    /\ learning_rate_c = <<0, 1>>
    /\ epsilon_c = <<0, 1>>

NoArgs == [num |-> 0, trajectory_limit |-> 0, discount_rate |-> <<0, 1>>,
           learning_rate |-> <<0, 1>>, epsilon |-> <<0, 1>>]

\* What the editor hands over: start and finish selected, distinct, not blocked
Init ==
    \E nr \in MinDim..MaxRows, nc \in MinDim..MaxCols :
      \E s \in Positions(nr, nc), f \in Positions(nr, nc) :
        \E set \in SUBSET (Positions(nr, nc) \ {s, f}) :
            /\ s # f
            /\ AppDefault
            /\ NoWorker
            /\ blocked = set
            /\ b = BoardNew(nr, nc, s, f, set)
            /\ pc = "idle"
            /\ ret_pc = "idle"
            /\ args = NoArgs
            /\ episode = 0
            /\ count = 0
            /\ traj = <<>>
            /\ returns = <<>>
            /\ final_vec = <<>>
            /\ action = NoAction
            /\ episodes = 0

\* ------------------------------------------------------------ Board::train

TrainCall ==
    /\ pc = "idle"
    /\ \E num \in 0..(MaxEpisodes - episodes), limit \in 0..MaxLimit,
          discount \in DiscountRates, rate \in LearningRates, eps \in Epsilons :
           args' = [num |-> num, trajectory_limit |-> limit,
                    discount_rate |-> discount, learning_rate |-> rate,
                    epsilon |-> eps]
    /\ pc' = "train_for"
    /\ ret_pc' = "idle"
    /\ episode' = 0
    /\ final_vec' = <<>>
    /\ UNCHANGED <<blocked, b, count, traj, returns, action, episodes>>
    /\ UNCHANGED <<appvars, workervars>>

\* for _ in 0..num { let mut count = 0; let mut traj = Vec::new(); ...
TrainEpisode ==
    /\ pc = "train_for"
    /\ episode < args.num
    /\ count' = 0
    /\ traj' = <<>>
    /\ episodes' = episodes + 1
    /\ pc' = "train_while"
    /\ UNCHANGED <<blocked, b, ret_pc, args, episode, returns, final_vec, action>>
    /\ UNCHANGED <<appvars, workervars>>

TrainReturn ==
    /\ pc = "train_for"
    /\ episode >= args.num
    /\ pc' = ret_pc
    /\ args' = NoArgs
    /\ episode' = 0
    /\ count' = 0
    /\ traj' = <<>>
    /\ returns' = <<>>
    /\ action' = NoAction
    /\ UNCHANGED <<blocked, b, ret_pc, final_vec, episodes>>
    /\ UNCHANGED <<appvars, workervars>>

\* the while loops with count <= trajectory_limit
WhileGuardOffByOne == b.current # b.finish /\ count <= args.trajectory_limit

WhileGuard == b.current # b.finish /\ count < args.trajectory_limit

\* self.data[self.current.0][self.current.1] is in range
InRange(bd) == bd.current \in DOMAIN bd.data

\* a rollout step that applies the update of its own step at once
TrainStepLearnsOnline ==
    /\ pc = "train_while"
    /\ WhileGuard
    /\ InRange(b)
    /\ Len(b.data[b.current].actions) > 0
    /\ \E random_number_1 \in Randoms :
         \E random_index_2 \in 1..Len(b.data[b.current].actions) :
           LET a == policy(b.data[b.current], args.epsilon, random_number_1,
                           random_index_2)
           IN /\ action' = a
              /\ b' = world_model_board(
                          update_after_trajectory(
                              b, <<[position |-> b.current, action |-> a,
                                    reward |-> world_model_reward(b, a)]>>,
                              args.discount_rate, args.learning_rate), a)
              /\ traj' = Append(traj, [position |-> b.current, action |-> a,
                                       reward |-> world_model_reward(b, a)])
    /\ count' = count + 1
    /\ UNCHANGED <<blocked, pc, ret_pc, args, episode, returns, final_vec, episodes>>
    /\ UNCHANGED <<appvars, workervars>>

\* while self.current != self.finish && count < trajectory_limit { ... }
TrainStep ==
    /\ pc = "train_while"
    /\ WhileGuard
    /\ InRange(b)
    /\ Len(b.data[b.current].actions) > 0
    /\ \E random_number_1 \in Randoms :
         \E random_index_2 \in 1..Len(b.data[b.current].actions) :
           LET a == policy(b.data[b.current], args.epsilon, random_number_1,
                           random_index_2)
           IN /\ action' = a
              /\ b' = world_model_board(b, a)
              /\ traj' = Append(traj, [position |-> b.current, action |-> a,
                                       reward |-> world_model_reward(b, a)])
    /\ count' = count + 1
    /\ UNCHANGED <<blocked, pc, ret_pc, args, episode, returns, final_vec, episodes>>
    /\ UNCHANGED <<appvars, workervars>>

\* self.update_after_trajectory(&traj, discount_rate, learning_rate); self.reset();
TrainUpdate ==
    /\ pc = "train_while"
    /\ ~WhileGuard
    /\ returns' = Returns(traj, args.discount_rate)
    /\ b' = reset(update_after_trajectory(b, traj, args.discount_rate,
                                          args.learning_rate))
    /\ episode' = episode + 1
    /\ pc' = "train_for"
    /\ UNCHANGED <<blocked, ret_pc, args, count, traj, final_vec, action, episodes>>
    /\ UNCHANGED <<appvars, workervars>>

\* ------------------------------------------------------- Board::trajectory

TrajectoryCall ==
    /\ pc = "idle"
    /\ \E limit \in 0..MaxLimit, eps \in Epsilons :
           args' = [NoArgs EXCEPT !.trajectory_limit = limit, !.epsilon = eps]
    /\ final_vec' = <<>>
    /\ count' = 0
    /\ pc' = "trajectory_while"
    /\ ret_pc' = "idle"
    /\ UNCHANGED <<blocked, b, episode, traj, returns, action, episodes>>
    /\ UNCHANGED <<appvars, workervars>>

\* a step that reads curr after world_model has moved the cursor
TrajectoryStepFromNext ==
    /\ pc = "trajectory_while"
    /\ WhileGuard
    /\ InRange(b)
    /\ Len(b.data[b.current].actions) > 0
    /\ \E random_number_1 \in Randoms :
         \E random_index_2 \in 1..Len(b.data[b.current].actions) :
           LET a == policy(b.data[b.current], args.epsilon, random_number_1,
                           random_index_2)
           IN /\ action' = a
              /\ b' = world_model_board(b, a)
              /\ final_vec' = Append(final_vec, <<Move(b.current, a), Move(b.current, a)>>)
    /\ count' = count + 1
    /\ UNCHANGED <<blocked, pc, ret_pc, args, episode, traj, returns, episodes>>
    /\ UNCHANGED <<appvars, workervars>>

\* while ... { let curr = self.current; policy; world_model; final_vec.push((curr, next)) }
TrajectoryStep ==
    /\ pc = "trajectory_while"
    /\ WhileGuard
    /\ InRange(b)
    /\ Len(b.data[b.current].actions) > 0
    /\ \E random_number_1 \in Randoms :
         \E random_index_2 \in 1..Len(b.data[b.current].actions) :
           LET a == policy(b.data[b.current], args.epsilon, random_number_1,
                           random_index_2)
           IN /\ action' = a
              /\ b' = world_model_board(b, a)
              /\ final_vec' = Append(final_vec, <<b.current, Move(b.current, a)>>)
    /\ count' = count + 1
    /\ UNCHANGED <<blocked, pc, ret_pc, args, episode, traj, returns, episodes>>
    /\ UNCHANGED <<appvars, workervars>>

TrajectoryReturn ==
    /\ pc = "trajectory_while"
    /\ ~WhileGuard
    /\ b' = reset(b)
    /\ pc' = ret_pc
    /\ args' = NoArgs
    /\ count' = 0
    /\ action' = NoAction
    /\ UNCHANGED <<blocked, ret_pc, episode, traj, returns, final_vec, episodes>>
    /\ UNCHANGED <<appvars, workervars>>

\* policy on a cell without actions: self.actions[0] and x[0] are out of range
PolicyPanic ==
    /\ pc \in {"train_while", "trajectory_while"}
    /\ WhileGuard
    /\ ~InRange(b) \/ Len(b.data[b.current].actions) = 0
    /\ pc' = "panicked"
    /\ UNCHANGED <<blocked, b, ret_pc, args, episode, count, traj, returns, final_vec,
                   action, episodes>>
    /\ UNCHANGED <<appvars, workervars>>

Next ==
    \/ TrainCall
    \/ TrainEpisode
    \/ TrainStep
    \/ TrainUpdate
    \/ TrainReturn
    \/ TrajectoryCall
    \/ TrajectoryStep
    \/ TrajectoryReturn
    \/ PolicyPanic

Spec == Init /\ [][Next]_vars

\* ------------------------------------------------ Board::new on its own

InitNew ==
    /\ AppDefault
    /\ NoWorker
    /\ blocked = {}
    /\ b = NoBoard
    /\ pc = "new"
    /\ ret_pc = "idle"
    /\ args = NoArgs
    /\ episode = 0
    /\ count = 0
    /\ traj = <<>>
    /\ returns = <<>>
    /\ final_vec = <<>>
    /\ action = NoAction
    /\ episodes = 0

\* Board::new validates nothing: any start and finish, any blocked set
BoardNewCall ==
    /\ pc = "new"
    /\ \E nr \in MinDim..MaxRowsNew, nc \in MinDim..MaxColsNew :
         \E s \in Positions(nr, nc), f \in Positions(nr, nc) :
           \E set \in SUBSET Positions(nr, nc) :
               /\ Cardinality(set) <= MaxBlockedNew
               /\ blocked' = set
               /\ b' = BoardNew(nr, nc, s, f, set)
    /\ pc' = "idle"
    /\ UNCHANGED <<ret_pc, args, episode, count, traj, returns, final_vec, action,
                   episodes>>
    /\ UNCHANGED <<appvars, workervars>>

NextNew == BoardNewCall

NewSpec == InitNew /\ [][NextNew]_vars

\* ------------------------------------------------------ MazeApp::update
\* One action is one frame with one input of the user, or one step of the
\* training worker.  In a frame the pointer is on at most one widget: a frame
\* whose pointer is on no cell of the grid finds no cell hovered.

NoCellHovered == [c \in Cells(rows, cols) |-> FALSE]

StartMissing == "Please select a starting point before proceeding."
FinishMissing == "Please select a finishing point before proceeding."

\* the DragValues of temp_rows and temp_cols
SetTempSizeUpTo(maxr, maxc) ==
    /\ app_mode = "ConfiguringMaze"
    /\ \E r \in MinDim..maxr, c \in MinDim..maxc :
          /\ temp_rows' = r
          /\ temp_cols' = c
    /\ hovered' = NoCellHovered
    /\ UNCHANGED <<rows, cols, cells, mode, start, finish, error>>
    /\ UNCHANGED <<trainingvars, app_mode, board, trajectory, currently_training, chan,
                   progress>>
    /\ UNCHANGED <<boardvars, workervars>>

SetTempSize == SetTempSizeUpTo(MaxRows, MaxCols)

\* a Resize/Reset that keeps the selected start and finish
ResizeResetKeepsSelection ==
    /\ app_mode = "ConfiguringMaze"
    /\ rows' = temp_rows
    /\ cols' = temp_cols
    /\ cells' = [c \in Cells(temp_rows, temp_cols) |-> FALSE]
    /\ hovered' = [c \in Cells(temp_rows, temp_cols) |-> FALSE]
    /\ UNCHANGED <<start, finish>>
    /\ UNCHANGED <<temp_rows, temp_cols, mode, error>>
    /\ UNCHANGED <<trainingvars, app_mode, board, trajectory, currently_training, chan,
                   progress>>
    /\ UNCHANGED <<boardvars, workervars>>

\* the button Resize/Reset
ResizeReset ==
    /\ app_mode = "ConfiguringMaze"
    /\ rows' = temp_rows
    /\ cols' = temp_cols
    /\ cells' = [c \in Cells(temp_rows, temp_cols) |-> FALSE]
    /\ hovered' = [c \in Cells(temp_rows, temp_cols) |-> FALSE]
    /\ start' = Unselected
    /\ finish' = Unselected
    /\ UNCHANGED <<temp_rows, temp_cols, mode, error>>
    /\ UNCHANGED <<trainingvars, app_mode, board, trajectory, currently_training, chan,
                   progress>>
    /\ UNCHANGED <<boardvars, workervars>>

\* the radio buttons No Edit, Hover Toggle, Select Start, Select Finish
SetMode ==
    /\ app_mode = "ConfiguringMaze"
    /\ \E m \in {"Rest", "Hover", "Start", "Finish"} : mode' = m
    /\ hovered' = NoCellHovered
    /\ UNCHANGED <<rows, cols, temp_rows, temp_cols, cells, start, finish, error>>
    /\ UNCHANGED <<trainingvars, app_mode, board, trajectory, currently_training, chan,
                   progress>>
    /\ UNCHANGED <<boardvars, workervars>>

\* a frame with the pointer on no widget
PointerAway ==
    /\ app_mode = "ConfiguringMaze"
    /\ hovered' = NoCellHovered
    /\ UNCHANGED <<rows, cols, temp_rows, temp_cols, cells, mode, start, finish, error>>
    /\ UNCHANGED <<trainingvars, app_mode, board, trajectory, currently_training, chan,
                   progress>>
    /\ UNCHANGED <<boardvars, workervars>>

\* a frame with the pointer on the cell (p[1] - 1, p[2] - 1) of the grid, clicking
\* it or not
PointerOnCell ==
    /\ app_mode = "ConfiguringMaze"
    /\ \E p \in Positions(rows, cols), clicked \in BOOLEAN :
         LET c == <<p[1] - 1, p[2] - 1>>
             hover_enabled == mode = "Hover" /\ p # start /\ p # finish
             toggles == hover_enabled /\ ~hovered[c]
             toggled == IF toggles THEN [cells EXCEPT ![c] = ~cells[c]] ELSE cells
             selects == clicked /\ mode \in {"Start", "Finish"}
         IN /\ hovered' = [d \in Cells(rows, cols) |->
                              IF d = c THEN (toggles \/ hovered[c]) ELSE FALSE]
            /\ cells' = IF selects THEN [toggled EXCEPT ![c] = FALSE] ELSE toggled
            /\ start' = IF clicked /\ mode = "Start"
                        THEN IF p = start THEN Unselected
                             ELSE IF p # finish THEN p ELSE start
                        ELSE start
            /\ finish' = IF clicked /\ mode = "Finish"
                         THEN IF p = finish THEN Unselected
                              ELSE IF p # start THEN p ELSE finish
                         ELSE finish
    /\ UNCHANGED <<rows, cols, temp_rows, temp_cols, mode, error>>
    /\ UNCHANGED <<trainingvars, app_mode, board, trajectory, currently_training, chan,
                   progress>>
    /\ UNCHANGED <<boardvars, workervars>>

\* the button Proceed to Training
Proceed ==
    /\ app_mode = "ConfiguringMaze"
    /\ hovered' = NoCellHovered
    /\ IF start = Unselected
       THEN /\ error' = StartMissing
            /\ UNCHANGED <<blocked, board, app_mode>>
       ELSE IF finish = Unselected
       THEN /\ error' = FinishMissing
            /\ UNCHANGED <<blocked, board, app_mode>>
       ELSE LET set == {p \in Positions(rows, cols) : cells[<<p[1] - 1, p[2] - 1>>]}
            IN /\ error' = ""
               /\ blocked' = set
               /\ board' = BoardNew(rows, cols, start, finish, set)
               /\ app_mode' = "ConfiguringTraining"
    /\ UNCHANGED <<rows, cols, temp_rows, temp_cols, cells, mode, start, finish>>
    /\ UNCHANGED <<trainingvars, trajectory, currently_training, chan, progress>>
    /\ UNCHANGED <<b, pc, ret_pc, args, episode, count, traj, returns, final_vec, action,
                   episodes>>
    /\ UNCHANGED workervars

\* the DragValues of the training screen
SetTraining ==
    /\ app_mode = "ConfiguringTraining"
    /\ \/ \E v \in 1..MaxEpisodes :
             /\ training_num' = v
             /\ UNCHANGED <<trajectory_limit, discount_rate, learning_rate, epsilon>>
       \/ \E v \in 1..MaxLimit :
             /\ trajectory_limit' = v
             /\ UNCHANGED <<training_num, discount_rate, learning_rate, epsilon>>
       \/ \E v \in DiscountRates :
             /\ discount_rate' = v
             /\ UNCHANGED <<training_num, trajectory_limit, learning_rate, epsilon>>
       \/ \E v \in LearningRates :
             /\ learning_rate' = v
             /\ UNCHANGED <<training_num, trajectory_limit, discount_rate, epsilon>>
       \/ \E v \in Epsilons :
             /\ epsilon' = v
             /\ UNCHANGED <<training_num, trajectory_limit, discount_rate, learning_rate>>
    /\ UNCHANGED <<editorvars, app_mode, board, trajectory, currently_training, chan,
                   progress>>
    /\ UNCHANGED <<boardvars, workervars>>

\* the button Begin Training Loop
BeginTraining ==
    /\ app_mode = "ConfiguringTraining"
    /\ app_mode' = "TrainingLoop"
    /\ UNCHANGED <<editorvars, trainingvars, board, trajectory, currently_training, chan,
                   progress>>
    /\ UNCHANGED <<boardvars, workervars>>

\* a frame of the training screen that spawns a worker whatever the flag says
TrainingFrameRespawns ==
    /\ app_mode = "TrainingLoop"
    /\ IF TRUE
       THEN /\ b' = board
            /\ pc' = "worker_for"
            /\ i' = 0
            /\ training_num_c' = training_num
            /\ trajectory_limit_c' = trajectory_limit
            /\ discount_rate_c' = discount_rate
            /\ learning_rate_c' = learning_rate
            /\ epsilon_c' = epsilon
       ELSE UNCHANGED <<b, pc, workervars>>
    /\ IF chan # <<>>
       THEN /\ trajectory' = Head(chan)
            /\ chan' = Tail(chan)
            /\ app_mode' = "DisplayOutput"
            /\ currently_training' = FALSE
       ELSE /\ currently_training' = TRUE
            /\ UNCHANGED <<trajectory, chan, app_mode>>
    /\ UNCHANGED <<editorvars, trainingvars, board, progress>>
    /\ UNCHANGED <<blocked, ret_pc, args, episode, count, traj, returns, final_vec,
                   action, episodes>>

\* a frame of the training screen: spawn the worker unless one is running, then
\* rx.try_recv().  A worker spawned in this frame has sent nothing yet; that it
\* could finish before the frame's try_recv is the next frame's receipt here.
TrainingFrame ==
    /\ app_mode = "TrainingLoop"
    /\ IF ~currently_training
       THEN /\ b' = board
            /\ pc' = "worker_for"
            /\ i' = 0
            /\ training_num_c' = training_num
            /\ trajectory_limit_c' = trajectory_limit
            /\ discount_rate_c' = discount_rate
            /\ learning_rate_c' = learning_rate
            /\ epsilon_c' = epsilon
       ELSE UNCHANGED <<b, pc, workervars>>
    /\ IF chan # <<>>
       THEN /\ trajectory' = Head(chan)
            /\ chan' = Tail(chan)
            /\ app_mode' = "DisplayOutput"
            /\ currently_training' = FALSE
       ELSE /\ currently_training' = TRUE
            /\ UNCHANGED <<trajectory, chan, app_mode>>
    /\ UNCHANGED <<editorvars, trainingvars, board, progress>>
    /\ UNCHANGED <<blocked, ret_pc, args, episode, count, traj, returns, final_vec,
                   action, episodes>>

\* ------------------------------------------------------ the training worker

RECURSIVE GCD(_, _)
GCD(x, y) == IF y = 0 THEN x ELSE GCD(y, x % y)

\* the progress without its + 1.0
FractionBehind(x, y) == <<(x - 1) \div GCD(x - 1, y), y \div GCD(x - 1, y)>>

\* (i as f32 + 1.0) / training_num_c as f32, with x = i + 1
Fraction(x, y) == <<x \div GCD(x, y), y \div GCD(x, y)>>


\* for i in 0..training_num_c { b.train(1, ...)
WorkerTrain ==
    /\ pc = "worker_for"
    /\ i < training_num_c
    /\ args' = [num |-> 1, trajectory_limit |-> trajectory_limit_c,
                discount_rate |-> discount_rate_c, learning_rate |-> learning_rate_c,
                epsilon |-> epsilon_c]
    /\ episode' = 0
    /\ pc' = "train_for"
    /\ ret_pc' = "worker_progress"
    /\ UNCHANGED <<blocked, b, count, traj, returns, final_vec, action, episodes>>
    /\ UNCHANGED <<appvars, workervars>>

\* *p = (i as f32 + 1.0) / training_num_c as f32, under the lock
WorkerProgress ==
    /\ pc = "worker_progress"
    /\ progress' = Fraction(i + 1, training_num_c)
    /\ i' = i + 1
    /\ pc' = "worker_for"
    /\ UNCHANGED <<blocked, b, ret_pc, args, episode, count, traj, returns, final_vec,
                   action, episodes>>
    /\ UNCHANGED <<editorvars, trainingvars, app_mode, board, trajectory,
                   currently_training, chan>>
    /\ UNCHANGED <<training_num_c, trajectory_limit_c, discount_rate_c, learning_rate_c,
                   epsilon_c>>

\* let trajectory = b.trajectory(1000, 0.0): the cap 1000 is MaxLimit here
WorkerTrajectory ==
    /\ pc = "worker_for"
    /\ i >= training_num_c
    /\ args' = [NoArgs EXCEPT !.trajectory_limit = MaxLimit, !.epsilon = <<0, 1>>]
    /\ final_vec' = <<>>
    /\ count' = 0
    /\ pc' = "trajectory_while"
    /\ ret_pc' = "worker_send"
    /\ UNCHANGED <<blocked, b, episode, traj, returns, action, episodes>>
    /\ UNCHANGED <<appvars, workervars>>

\* tx.send(trajectory).unwrap()
WorkerSend ==
    /\ pc = "worker_send"
    /\ chan' = Append(chan, final_vec)
    /\ pc' = "worker_done"
    /\ UNCHANGED boardvars_but_pc
    /\ UNCHANGED <<editorvars, trainingvars, app_mode, board, trajectory,
                   currently_training, progress>>
    /\ UNCHANGED workervars

NextApp ==
    \/ SetTempSize
    \/ ResizeReset
    \/ SetMode
    \/ PointerAway
    \/ PointerOnCell
    \/ Proceed
    \/ SetTraining
    \/ BeginTraining
    \/ TrainingFrame
    \/ WorkerTrain
    \/ TrainEpisode
    \/ TrainStep
    \/ TrainUpdate
    \/ TrainReturn
    \/ WorkerProgress
    \/ WorkerTrajectory
    \/ TrajectoryStep
    \/ TrajectoryReturn
    \/ WorkerSend
    \/ PolicyPanic

InitApp ==
    /\ AppDefault
    /\ NoWorker
    /\ blocked = {}
    /\ b = NoBoard
    /\ pc = "unspawned"
    /\ ret_pc = "idle"
    /\ args = NoArgs
    /\ episode = 0
    /\ count = 0
    /\ traj = <<>>
    /\ returns = <<>>
    /\ final_vec = <<>>
    /\ action = NoAction
    /\ episodes = 0

AppSpec == InitApp /\ [][NextApp]_vars

\* ------------------------------------------------------ the maze editor
\* The screen ConfiguringMaze with grids of up to MaxRowsEditor rows and
\* MaxColsEditor columns, so that Resize/Reset changes the size of the grid.

SetTempSizeEditor == SetTempSizeUpTo(MaxRowsEditor, MaxColsEditor)

NextEditor ==
    \/ SetTempSizeEditor
    \/ ResizeReset
    \/ SetMode
    \/ PointerAway
    \/ PointerOnCell
    \/ Proceed

InitEditor ==
    /\ AppDefaultOf(MaxRowsEditor, MaxColsEditor)
    /\ NoWorker
    /\ blocked = {}
    /\ b = NoBoard
    /\ pc = "unspawned"
    /\ ret_pc = "idle"
    /\ args = NoArgs
    /\ episode = 0
    /\ count = 0
    /\ traj = <<>>
    /\ returns = <<>>
    /\ final_vec = <<>>
    /\ action = NoAction
    /\ episodes = 0

EditorSpec == InitEditor /\ [][NextEditor]_vars

\* ------------------------------------------------------------- properties

InTrain == pc \in {"train_for", "train_while"}
InRollout == pc \in {"train_while", "trajectory_while"}
\* an episode has just been learned from: traj and returns are that episode's
AfterUpdate == pc = "train_for" /\ episode > 0
One == <<1, 1>>
Zero == <<0, 1>>
IsBlocked(c) == <<c[1] + 1, c[2] + 1>> \in blocked

\* C1: a rollout of Board::train or Board::trajectory never counts past its step
\* cap S (S = 0 included), holds exactly one recorded step per count, takes a step
\* only while the cursor is off the goal and the count below S, each step adding
\* one to the count (so it ends within S steps), and Board::trajectory returns the
\* at most S pairs it collected.
C1_Step ==
    /\ (pc' \in {"train_for", "train_while"} /\ pc # "idle") =>
           (count' <= args'.trajectory_limit /\ Len(traj') = count')
    /\ pc' = "trajectory_while" =>
           (count' <= args'.trajectory_limit /\ Len(final_vec') = count')
    /\ (InRollout /\ pc' = pc) =>
           (count' = count + 1 /\ b.current # b.finish /\ count < args.trajectory_limit)
    /\ (InRollout /\ (b.current = b.finish \/ count >= args.trajectory_limit)) =>
           pc' # pc
    /\ (pc = "trajectory_while" /\ pc' = "idle") =>
           (final_vec' = final_vec /\ Len(final_vec') <= args.trajectory_limit)

C1_RolloutBounded == [][C1_Step]_vars

\* C1 witness: an export rollout stopped by a cap of MaxLimit steps, off the goal
C1_Witness ==
    /\ pc = "trajectory_while"
    /\ args.trajectory_limit = MaxLimit
    /\ count = MaxLimit
    /\ Len(final_vec) = MaxLimit
    /\ b.current # b.finish

\* C2: whenever no rollout is running (after construction, between the episodes
\* of Board::train, after Board::train and Board::trajectory have returned) the
\* cursor equals start.
C2_CursorAtStart == pc \in {"idle", "train_for"} => b.current = b.start

\* C2 witness: an episode that ended at the step cap, away from the goal and away
\* from start, has been learned from and the cursor is back
C2_Witness ==
    /\ AfterUpdate
    /\ count = args.trajectory_limit
    /\ Len(traj) >= 1
    /\ traj[Len(traj)].reward = -1
    /\ Move(traj[Len(traj)].position, traj[Len(traj)].action) # b.start

\* C3: for every learned episode of length L >= 1 the return applied to the last
\* step is that step's own reward, and the return applied to an earlier step k is
\* reward_k + discount_rate * G_(k+1).
C3_ReturnIsRewardToGo ==
    (AfterUpdate /\ Len(traj) >= 1) =>
        LET L == Len(traj)
        IN /\ return_of(returns, L) = traj[L].reward * multiplier
           /\ \A k \in 1..(L - 1) :
                  return_of(returns, k) * args.discount_rate[2]
                    = traj[k].reward * multiplier * args.discount_rate[2]
                      + args.discount_rate[1] * return_of(returns, k + 1)

\* C4: for an episode that reached the goal, learned with discount_rate = 1, every
\* reward but the last is -1 and the return applied to step k (counted from 0) is
\* -(L-1-k).
C4_GoalReturns ==
    (AfterUpdate /\ Len(traj) >= 1 /\ traj[Len(traj)].reward = 0
       /\ args.discount_rate = One) =>
        LET L == Len(traj)
        IN \A k \in 1..L :
               /\ (k < L => traj[k].reward = -1)
               /\ return_of(returns, k) = -(L - k) * multiplier

\* C4 witness: a three-step episode to the goal: rewards -1, -1, 0
C4_Witness ==
    /\ AfterUpdate
    /\ Len(traj) = 3
    /\ traj[3].reward = 0
    /\ args.discount_rate = One
    /\ returns = <<0, -multiplier, -2 * multiplier>>

\* the cell the last rollout step was taken from
LastPosition ==
    IF pc = "trajectory_while" THEN final_vec[Len(final_vec)][1]
    ELSE traj[Len(traj)].position

CanonicalIndex(a) == CHOOSE k \in 1..Len(Actions) : Actions[k] = a

\* C5: with epsilon = 0 the action a rollout step takes is the one of maximal
\* value estimate of the cell it is taken from, the lowest-indexed among several
\* maximal ones, and every cell lists its actions in the order Up, Right, Down,
\* Left; so the step, and with it the whole rollout, is determined by the values.
C5_GreedyIsFirstMax ==
    /\ \A c \in DOMAIN b.data :
         \A k \in 1..Len(b.data[c].actions), m \in 1..Len(b.data[c].actions) :
            k < m => CanonicalIndex(b.data[c].actions[k])
                       < CanonicalIndex(b.data[c].actions[m])
    /\ (InRollout /\ count > 0 /\ args.epsilon = Zero) =>
         LET state == b.data[LastPosition]
         IN \E k \in 1..Len(state.actions) :
               /\ action = state.actions[k]
               /\ \A m \in 1..Len(state.actions) :
                     state.action_values[m] <= state.action_values[k]
               /\ \A m \in 1..(k - 1) :
                     state.action_values[m] < state.action_values[k]

\* C5 witness: a greedy step from a cell of two actions whose second action has
\* the greater value, on a board where another cell holds two equal learned values
C5_Witness ==
    /\ InRollout
    /\ count > 0
    /\ args.epsilon = Zero
    /\ Len(b.data[LastPosition].actions) = 2
    /\ action = b.data[LastPosition].actions[2]
    /\ \E c \in DOMAIN b.data :
          /\ Len(b.data[c].action_values) = 2
          /\ b.data[c].action_values[1] = b.data[c].action_values[2]
          /\ b.data[c].action_values[1] < 0

InGrid(bd, c) ==
    /\ 0 <= c[1] /\ c[1] < bd.dimensions[1]
    /\ 0 <= c[2] /\ c[2] < bd.dimensions[2]

\* the move a leads from cell c to a cell of the grid that is not blocked
LegalMove(bd, c, a) == InGrid(bd, Move(c, a)) /\ ~IsBlocked(Move(c, a))

\* C6: Board::new gives every cell that is not blocked exactly the actions that
\* lead to a cell inside the grid and not blocked, in the order Up, Right, Down,
\* Left; a cell off the boundary with no blocked neighbour has all four.
C6_LegalActions ==
    pc = "idle" =>
        \A c \in DOMAIN b.data :
            ~IsBlocked(c) =>
                /\ b.data[c].actions
                     = SelectSeq(Actions, LAMBDA a : LegalMove(b, c, a))
                /\ ( /\ 0 < c[1] /\ c[1] < b.dimensions[1] - 1
                     /\ 0 < c[2] /\ c[2] < b.dimensions[2] - 1
                     /\ \A a \in {"Up", "Right", "Down", "Left"} : ~IsBlocked(Move(c, a)) )
                   => Len(b.data[c].actions) = 4

\* C6 witness: a 3 x 3 board whose centre has all four actions and whose top
\* middle cell lost Left to the blocked corner beside it
C6_Witness ==
    /\ pc = "idle"
    /\ b.dimensions = <<3, 3>>
    /\ b.data[<<1, 1>>].actions = Actions
    /\ IsBlocked(<<0, 0>>)
    /\ b.data[<<0, 1>>].actions = <<"Right", "Down">>

\* C7: in every state of the board each cell has as many value estimates as
\* actions, and a blocked cell has neither.
C7_ListsAligned ==
    \A c \in DOMAIN b.data :
        /\ Len(b.data[c].actions) = Len(b.data[c].action_values)
        /\ IsBlocked(c) => (b.data[c].actions = <<>> /\ b.data[c].action_values = <<>>)

\* C7 witness: a board with a blocked cell after two learned episodes and an
\* export rollout
C7_Witness ==
    /\ pc = "idle"
    /\ episodes = 2
    /\ Len(final_vec) > 0
    /\ \E c \in DOMAIN b.data : IsBlocked(c)
    /\ \E c \in DOMAIN b.data : \E k \in 1..Len(b.data[c].action_values) :
          b.data[c].action_values[k] # 0

\* C8: no step of Board::train called with learning_rate = 0 changes a value
\* estimate.
C8_Step == (InTrain /\ args.learning_rate[1] = 0) => b'.data = b.data

C8_ZeroLearningRate == [][C8_Step]_vars

\* C8 witness: with learning_rate = 0 an episode of nonzero returns has been
\* learned from on a board that holds values learned earlier
C8_Witness ==
    /\ AfterUpdate
    /\ args.learning_rate[1] = 0
    /\ Len(traj) >= 2
    /\ \E k \in 1..Len(traj) : return_of(returns, k) # 0
    /\ \E c \in DOMAIN b.data : \E k \in 1..Len(b.data[c].action_values) :
          b.data[c].action_values[k] # 0
    /\ \E k \in 1..Len(traj) :
          b.data[traj[k].position].action_values[
              index_of(b.data[traj[k].position].actions, traj[k].action)]
            # return_of(returns, k) * ValDen

\* C9: Board::trajectory, from its call to its return, changes no value estimate,
\* no action list, no dimension, start or finish; it moves only the cursor, which
\* is at start again when it returns.
C9_Step ==
    /\ (pc = "idle" /\ pc' = "trajectory_while") => b' = b
    /\ pc = "trajectory_while" =>
          /\ b' = [b EXCEPT !.current = b'.current]
          /\ pc' = "idle" => b'.current = b.start

C9_TrajectoryFrame == [][C9_Step]_vars

\* C9 witness: an export rollout that moved the cursor has returned, on a board
\* with learned values
C9_Witness ==
    /\ pc = "idle"
    /\ Len(final_vec) >= 2
    /\ \E c \in DOMAIN b.data : \E k \in 1..Len(b.data[c].action_values) :
          b.data[c].action_values[k] # 0

\* the worker has finished its training loop
TrainingOver ==
    \/ pc \in {"worker_send", "worker_done"}
    \/ pc = "trajectory_while" /\ ret_pc = "worker_send"
    \/ pc = "worker_for" /\ i >= training_num_c

C10_State ==
    /\ 0 <= progress[1] /\ progress[1] <= progress[2] /\ progress[2] > 0
    /\ pc = "worker_for" => progress[1] * training_num_c = episodes * progress[2]
    /\ (TrainingOver \/ chan # <<>> \/ app_mode = "DisplayOutput") => progress = One

C10_Step ==
    /\ progress[1] * progress'[2] <= progress'[1] * progress[2]
    /\ progress' # progress =>
          /\ pc = "worker_progress"
          /\ progress'[1] * training_num_c = episodes * progress'[2]
    /\ (pc = "worker_progress" /\ pc' # pc) =>
          progress[1] * progress'[2] < progress'[1] * progress[2]

\* C10: the progress the worker publishes lies in [0, 1] and never decreases; it
\* is written in the one step that follows each completed episode, and only
\* there, to (episodes completed) / num_episodes; and it is 1 from the end of the
\* training loop on, so before the exported trajectory is sent or received.
C10_Progress == []C10_State /\ [][C10_Step]_vars

\* C10 witness: the trajectory has been sent after a run of two episodes, the
\* first of which moved the progress to 1/2
C10_Witness ==
    /\ chan # <<>>
    /\ training_num_c = 2
    /\ episodes = 2
    /\ progress = One

\* the worker thread has ended, by returning or by a panic
WorkerEnded == pc \in {"worker_done", "panicked"}

\* trajectories sent so far: those in the channel and the one received
Sent == Len(chan) + (IF app_mode = "DisplayOutput" THEN 1 ELSE 0)

\* C11: the exported trajectory is sent exactly once per training run (never
\* twice, and once when the worker's run has ended), only after all num_episodes
\* episodes have completed; the app is in DisplayOutput only after receiving it,
\* and what the foreground holds is nothing or the whole exported trajectory.
C11_SentExactlyOnce ==
    /\ Sent <= 1
    /\ WorkerEnded => Sent = 1
    /\ Sent = 1 => (pc = "worker_done" /\ episodes = training_num_c
                      /\ i = training_num_c)
    /\ app_mode = "DisplayOutput" => (chan = <<>> /\ trajectory = final_vec)
    /\ app_mode # "DisplayOutput" => trajectory = <<>>

\* the cell of the editor's grid under the one-based position p is not blocked
Unblocked(p) == ~cells[<<p[1] - 1, p[2] - 1>>]

\* start and finish are selected, inside the grid, different and not blocked
SelectionValid ==
    /\ start \in Positions(rows, cols)
    /\ finish \in Positions(rows, cols)
    /\ start # finish
    /\ Unblocked(start)
    /\ Unblocked(finish)

C12_State ==
    board # NoBoard =>
        /\ SelectionValid
        /\ app_mode # "ConfiguringMaze"
        /\ board.dimensions = <<rows, cols>>
        /\ board.start = <<start[1] - 1, start[2] - 1>>
        /\ board.finish = <<finish[1] - 1, finish[2] - 1>>

C12_Step ==
    /\ board' # board => (SelectionValid /\ Proceed)
    /\ (Proceed /\ (start = Unselected \/ finish = Unselected)) =>
          /\ error' \in {StartMissing, FinishMissing}
          /\ board' = board
          /\ app_mode' = "ConfiguringMaze"

\* C12: over any sequence of editor events a Board is constructed only when
\* start and finish are both selected, inside the grid, different and not
\* blocked; Proceed with start or finish unselected sets an error message,
\* constructs no Board and leaves the app in ConfiguringMaze.
C12_BoardOnlyFromValidSelection == []C12_State /\ [][C12_Step]_vars

\* a Board was constructed on a grid made smaller by Resize/Reset, with a
\* blocked cell
C12_Witness ==
    /\ board # NoBoard
    /\ cols < MaxColsEditor
    /\ blocked # {}

\* the next step of the rollout in progress invokes State::policy on the cell
\* under the cursor
PolicyInvoked == InRollout /\ WhileGuard

\* C13: for every maze the editor accepts, every cell at which State::policy is
\* invoked during a training or export rollout is not blocked, is not the goal
\* and has at least one legal action, so that policy and max_index never index
\* an empty list (the rollout never panics).
C13_PolicyOnCellWithAction ==
    /\ PolicyInvoked =>
          /\ InRange(b)
          /\ ~IsBlocked(b.current)
          /\ b.current # b.finish
          /\ Len(b.data[b.current].actions) >= 1
          /\ Len(b.data[b.current].action_values)
               = Len(b.data[b.current].actions)
    /\ pc # "panicked"

\* the cells a rollout can reach from the cells of `seen` by the actions listed
\* in the board's cells
RECURSIVE Reach(_, _)
Reach(bd, seen) ==
    LET next == seen \cup UNION {{Move(c, bd.data[c].actions[k]) :
                                     k \in 1..Len(bd.data[c].actions)} : c \in seen}
    IN IF next = seen THEN seen ELSE Reach(bd, next)

\* no sequence of legal moves leads from start to finish
NoPath(bd) == bd.finish \notin Reach(bd, {bd.start})

\* C14: on an accepted maze with no path from start to goal the engine does not
\* fail: no rollout panics or reaches the goal, every finished training rollout
\* and the exported rollout have exactly S steps (S the step cap), and when the
\* worker has ended, all num_episodes episodes were run and the result was sent
\* (so that the app can leave TrainingLoop for DisplayOutput).
C14_NoPathRunsToCap ==
    (pc # "unspawned" /\ NoPath(b)) =>
        /\ pc # "panicked"
        /\ b.current # b.finish
        /\ AfterUpdate => Len(traj) = args.trajectory_limit
        /\ pc \in {"worker_send", "worker_done"} => Len(final_vec) = MaxLimit
        /\ WorkerEnded => (i = training_num_c /\ Sent = 1)

\* C15: in every state of a rollout on a Board built from a valid configuration
\* the cursor is inside the grid (world_model never takes a coordinate below 0
\* or to rows or cols) and is not on a blocked cell.
C15_CursorOnFreeCell ==
    /\ InGrid(b, b.current)
    /\ ~IsBlocked(b.current)
    /\ b.current \in DOMAIN b.data

\* a rollout has moved the cursor, on a maze with a blocked cell, to a cell on
\* the boundary from which a cardinal move would leave the grid
C15_Witness ==
    /\ InRollout
    /\ count >= 2
    /\ blocked # {}
    /\ b.current # b.start
    /\ \E k \in 1..Len(Actions) : ~InGrid(b, Move(b.current, Actions[k]))

\* this step spawns a worker thread
Spawns == pc' = "worker_for" /\ i' = 0 /\ (pc # "worker_for" \/ i # 0)

C16_State ==
    /\ currently_training => pc # "unspawned"
    /\ (pc # "unspawned" /\ app_mode = "TrainingLoop") => currently_training
    /\ app_mode = "DisplayOutput" => (~currently_training /\ pc = "worker_done")
    /\ pc = "unspawned" => b = NoBoard

C16_Step ==
    /\ Spawns => /\ pc = "unspawned"
                 /\ ~currently_training
                 /\ currently_training'
                 /\ b' = board
    /\ (~currently_training /\ currently_training') => Spawns
    /\ (currently_training /\ ~currently_training') =>
          /\ chan # <<>>
          /\ trajectory' = Head(chan)
          /\ app_mode = "TrainingLoop"
          /\ app_mode' = "DisplayOutput"
    /\ pc # "unspawned" => board' = board

\* C16: at most one training worker is ever active: a worker is spawned only
\* when currently_training is false and none was spawned before, the flag is
\* set with the spawn and cleared only when the result is received, together
\* with the switch to DisplayOutput, and the worker trains its own clone of the
\* Board: the app's Board is not changed once a worker exists.
C16_OneWorker == []C16_State /\ [][C16_Step]_vars

\* the one worker is in a rollout of its second episode, and its clone has
\* learned values the app's Board does not have
C16_Witness ==
    /\ pc = "train_while"
    /\ i >= 1
    /\ app_mode = "TrainingLoop"
    /\ currently_training
    /\ b.data # board.data

\* step k of the episode steps is a visit of action number idx of cell c
Visits(data, steps, k, c, idx) ==
    steps[k].position = c /\ steps[k].action = data[c].actions[idx]

\* the value of action number idx of cell c after the updates of the first n
\* steps of the episode, G[Len(G) + 1 - k] being the return G_k of step k
RECURSIVE ValueAfter(_, _, _, _, _, _, _)
ValueAfter(data, steps, G, rate, c, idx, n) ==
    IF n = 0 THEN data[c].action_values[idx]
    ELSE LET value == ValueAfter(data, steps, G, rate, c, idx, n - 1)
         IN IF Visits(data, steps, n, c, idx)
            THEN value + RoundHalfAway((G[Len(G) + 1 - n] * ValDen - value) * rate[1],
                                       rate[2])
            ELSE value

\* C17: update_after_trajectory applies value <- value + learning_rate *
\* (G_k - value) once per step of the episode, in forward order, to the value
\* of action a_k of cell p_k, each occurrence of the same (cell, action) on
\* the value the previous one left (every-visit); no other value and no
\* action list is changed.
C17_EveryVisitForward ==
    [][(pc = "train_while" /\ pc' = "train_for") =>
          \A c \in DOMAIN b.data :
             /\ b'.data[c].actions = b.data[c].actions
             /\ DOMAIN b'.data[c].action_values = DOMAIN b.data[c].action_values
             /\ \A idx \in 1..Len(b.data[c].actions) :
                   /\ b'.data[c].action_values[idx]
                        = ValueAfter(b.data, traj, returns', args.learning_rate,
                                     c, idx, Len(traj))
                   /\ (\A k \in 1..Len(traj) : ~Visits(b.data, traj, k, c, idx)) =>
                          b'.data[c].action_values[idx]
                             = b.data[c].action_values[idx]]_vars

\* an episode has been learned from, with learning rate 1/10, in which the same
\* action of the same cell was taken twice, with different returns
C17_Witness ==
    /\ AfterUpdate
    /\ args.learning_rate = <<1, 10>>
    /\ \E k \in 1..Len(traj), m \in 1..Len(traj) :
          /\ k < m
          /\ traj[k].position = traj[m].position
          /\ traj[k].action = traj[m].action
          /\ return_of(returns, k) # return_of(returns, m)

\* the cell the cursor is on after step k of the episode in traj
CursorAfter(k) == Move(traj[k].position, traj[k].action)

\* C18: in every episode recorded by Board::train a step's reward is 0 exactly
\* when the cursor after the step is the goal, and -1 otherwise; only the last
\* step of an episode can have reward 0, and a finished episode's last step has
\* reward 0 iff the episode ended on the goal and not by the step cap.
C18_RewardZeroAtGoal ==
    InTrain =>
        /\ \A k \in 1..Len(traj) :
              /\ traj[k].reward = (IF CursorAfter(k) = b.finish THEN 0 ELSE -1)
              /\ traj[k].reward \in {0, -1}
              /\ k < Len(traj) => traj[k].reward = -1
              /\ k < Len(traj) => CursorAfter(k) = traj[k + 1].position
        /\ (pc = "train_while" /\ Len(traj) > 0) =>
              (traj[Len(traj)].reward = 0 <=> b.current = b.finish)
        /\ (AfterUpdate /\ Len(traj) > 0) =>
              /\ traj[Len(traj)].reward = 0 <=> CursorAfter(Len(traj)) = b.finish
              /\ traj[Len(traj)].reward = -1 => Len(traj) = args.trajectory_limit

\* a finished episode of three steps whose last step reached the goal
C18_Witness ==
    /\ AfterUpdate
    /\ Len(traj) = 3
    /\ traj[3].reward = 0
    /\ traj[1].reward = -1

\* the cells c and d are one cardinal step apart
CardinalStep(c, d) ==
    \/ c[1] = d[1] /\ (c[2] = d[2] + 1 \/ d[2] = c[2] + 1)
    \/ c[2] = d[2] /\ (c[1] = d[1] + 1 \/ d[1] = c[1] + 1)

\* the sequence of pairs is a connected walk from start over free cells
C19_State ==
    /\ final_vec # <<>> => final_vec[1][1] = b.start
    /\ \A k \in 1..Len(final_vec) :
          /\ InGrid(b, final_vec[k][1]) /\ ~IsBlocked(final_vec[k][1])
          /\ InGrid(b, final_vec[k][2]) /\ ~IsBlocked(final_vec[k][2])
          /\ CardinalStep(final_vec[k][1], final_vec[k][2])
          /\ final_vec[k][1] # b.finish
          /\ k < Len(final_vec) => final_vec[k][2] = final_vec[k + 1][1]

\* Board::trajectory returns
C19_Step ==
    (pc = "trajectory_while" /\ pc' # "trajectory_while" /\ pc' # "panicked") =>
        /\ final_vec' = final_vec
        /\ Len(final_vec) <= args.trajectory_limit
        /\ Len(final_vec) < args.trajectory_limit =>
              /\ final_vec # <<>>
              /\ final_vec[Len(final_vec)][2] = b.finish

\* C19: the sequence Board::trajectory returns is a connected walk: if not
\* empty its first pair starts at start, each pair's to-position is the next
\* pair's from-position, every pair joins two non-blocked in-grid cells one
\* cardinal step apart, no pair starts at the goal, and a sequence shorter than
\* the step cap ends with the goal as its last to-position.
C19_ConnectedWalk == []C19_State /\ [][C19_Step]_vars

\* Board::trajectory has returned a walk of two pairs that ends on the goal, on
\* a maze with a blocked cell
C19_Witness ==
    /\ pc = "idle"
    /\ Len(final_vec) = 2
    /\ final_vec[2][2] = b.finish
    /\ blocked # {}

\* the parts of the Board fixed by Board::new: the action list of every cell,
\* the dimensions, start and finish
Topology(bd) ==
    [actions |-> [c \in DOMAIN bd.data |-> bd.data[c].actions],
     dimensions |-> bd.dimensions,
     start |-> bd.start,
     finish |-> bd.finish]

\* C20: after construction no operation (train, trajectory,
\* update_after_trajectory, reset) changes a cell's list of legal actions, the
\* dimensions, start or finish; only action_values entries (their number
\* unchanged) and the cursor are written.
C20_TopologyFixed ==
    [][ /\ Topology(b') = Topology(b)
        /\ \A c \in DOMAIN b.data :
              Len(b'.data[c].action_values) = Len(b.data[c].action_values)
        /\ DOMAIN b' = DOMAIN b ]_vars

\* training has changed a value and a rollout has moved the cursor off start
C20_Witness ==
    /\ pc = "trajectory_while"
    /\ b.current # b.start
    /\ \E c \in DOMAIN b.data : \E k \in 1..Len(b.data[c].action_values) :
          b.data[c].action_values[k] # 0

\* the worker's training run is under way or over
WorkerSpawned == pc # "unspawned"

\* where the worker is in its sequence of episodes: `episodes` rollouts were
\* begun, i of them have had their progress published
C21_State ==
    WorkerSpawned =>
        /\ pc = "worker_for" => (episodes = i /\ b.current = b.start)
        /\ pc = "train_for" => (episodes = i + episode /\ b.current = b.start)
        /\ pc = "train_while" => (episodes = i + 1 /\ episode = 0)
        /\ pc = "worker_progress" => (episodes = i + 1 /\ b.current = b.start)
        /\ pc \in {"trajectory_while", "worker_send", "worker_done"} =>
              (i = training_num_c /\ episodes = training_num_c)
        /\ i <= training_num_c

C21_Step ==
    WorkerSpawned =>
        \* the values change in the one step that ends a rollout, which resets
        /\ b'.data # b.data =>
              /\ pc = "train_while" /\ ~WhileGuard
              /\ pc' = "train_for" /\ episode' = episode + 1
              /\ b'.data = update_after_trajectory(b, traj, args.discount_rate,
                                                   args.learning_rate).data
              /\ b'.current = b'.start
        \* a rollout ends with its update, and in no other way short of a panic
        /\ (pc = "train_while" /\ pc' # "train_while") =>
              \/ pc' = "panicked"
              \/ pc' = "train_for" /\ ~WhileGuard /\ episode' = episode + 1
        \* a training rollout begins from the reset cursor, after the update of
        \* the episode before it
        /\ (pc # "train_while" /\ pc' = "train_while") =>
              /\ pc = "train_for" /\ episode = 0 /\ episodes = i
              /\ b.current = b.start /\ traj' = <<>>
        \* progress is published after the episode's update and reset
        /\ progress' # progress =>
              /\ pc = "worker_progress" /\ episodes = i + 1 /\ b.current = b.start
              /\ b' = b /\ i' = i + 1
        \* the export rollout begins after the last episode's update
        /\ (pc # "trajectory_while" /\ pc' = "trajectory_while") =>
              /\ pc = "worker_for" /\ i = training_num_c
              /\ episodes = training_num_c /\ b.current = b.start

\* C21: a training run is strictly sequential per episode: the value estimates
\* are constant while a rollout is generated, the update of an episode is
\* applied only when its rollout has ended and before the next rollout begins,
\* the progress of an episode is published only after its update and the reset
\* of the cursor, and the export rollout starts only after the last episode's
\* update.
C21_SequentialEpisodes == []C21_State /\ [][C21_Step]_vars

\* the second episode's rollout is under way on values the first episode's
\* update changed, the first episode's progress being published
C21_Witness ==
    /\ pc = "train_while"
    /\ i = 1
    /\ count >= 1
    /\ progress = <<1, 2>>
    /\ b.data # board.data

\* -(S - 1) in the unit of the value estimates, S the training run's step cap
ValueFloor == -(trajectory_limit_c - 1) * multiplier * ValDen

\* -(S - 1) in the unit of the returns
ReturnFloor == -(trajectory_limit_c - 1) * multiplier

\* C22: with discount_rate and learning_rate in [0, 1] and a step cap S >= 1,
\* every value estimate of every cell stays within [-(S - 1), 0] after any
\* number of training episodes, as does every computed return; with S = 1 no
\* value estimate ever changes from 0, and the value estimates of the goal
\* cell always remain 0.
C22_ValuesBounded ==
    WorkerSpawned =>
        /\ trajectory_limit_c >= 1
        /\ \A c \in DOMAIN b.data :
              \A k \in 1..Len(b.data[c].action_values) :
                 /\ ValueFloor <= b.data[c].action_values[k]
                 /\ b.data[c].action_values[k] <= 0
                 /\ trajectory_limit_c = 1 => b.data[c].action_values[k] = 0
                 /\ c = b.finish => b.data[c].action_values[k] = 0
        /\ \A k \in 1..Len(returns) :
              ReturnFloor <= returns[k] /\ returns[k] <= 0

\* under a step cap of 3 a value estimate has reached -(S - 1) = -2, and the
\* goal cell has the value estimates of its actions
C22_Witness ==
    /\ WorkerSpawned
    /\ trajectory_limit_c = 3
    /\ Len(b.data[b.finish].action_values) >= 1
    /\ \E c \in DOMAIN b.data : \E k \in 1..Len(b.data[c].action_values) :
          b.data[c].action_values[k] = ValueFloor

====
